---- MODULE Spec2Model ----
(***************************************************************************)
(* Model of src/main.py (bsit-tags): the two row tables (object properties *)
(* and tags), the row validator, and the compilation pass on_table_change  *)
(* that turns the rows into an RDF graph or into one error message.        *)
(*                                                                         *)
(* Strings are modelled as sequences of lexemes.  The lexemes the code     *)
(* looks for ("@", ":", "^^", "<", ">", a "(digits)" group) are lexemes of *)
(* their own; every other lexeme is a run of ordinary characters.  So      *)
(* "p:foo(1)" is <<"p", ":", "foo", "(1)">> and "" is << >>.  Python's     *)
(* startswith, endswith, "in", split(sep, 1), slicing and "+" are computed *)
(* on these sequences the way the code computes them on characters.        *)
(***************************************************************************)
EXTENDS Integers, Sequences, FiniteSets, TLC

VARIABLES
    obj_data,          \* main.py:361  rows of the object property table
    tag_data,          \* main.py:376  rows of the tags table
    obj_next_id,       \* obj_table.next_id
    tag_next_id,       \* tag_table.next_id
    heap,              \* the dict objects: the one bound to default_prefixes
                       \* and the one made by the latest .copy()
    prefixes,          \* global prefixes: which dict object it is bound to
    base_name,         \* global base_name
    code_content,      \* what set_code_content last put on display
    in_sync,           \* history: the displayed content was compiled from
                       \* the rows as they are now
    validate_ret,      \* history: outcome of the latest validate_row call
    earlier,           \* history: what the passes so far have declared
                       \* ("prefix": a prefix row, "base": an @base row)
    ever_ids,          \* history: per table, the ids of all rows it ever held
    removed_ids,       \* history: per table, the ids delete_row removed
    added_ids,         \* history: per table, the ids add_row assigned
    last_call          \* history: the add_row or delete_row call, when it
                       \* is the latest event

vars == <<obj_data, tag_data, obj_next_id, tag_next_id, heap, prefixes,
          base_name, code_content, in_sync, validate_ret, earlier,
          ever_ids, removed_ids, added_ids, last_call>>

-----------------------------------------------------------------------------
(* Bounds of the model *)

\* most tag rows a pass is given in SpecDirectives and SpecStatements
MaxTags == 3
\* most rows of a table in the editing session of Spec
MaxRows == 1
\* add_row is taken while next_id is below this value
MaxId == 2
\* the same two bounds for the tables of SpecTables
MaxTableRows == 2
MaxTableId == 3
\* ids of the initial rows of SpecTables are below this value
MaxInitId == 2

-----------------------------------------------------------------------------
(* Python values *)

\* None / a str, for base_name, id_name, language_name
None == [none |-> TRUE, s |-> << >>]
Str(s) == [none |-> FALSE, s |-> s]

\* a row value that is not a str (the cell-change event carries any JSON value)
NonString == <<"\\non-string">>

startswith(s, lx) == Len(s) > 0 /\ s[1] = lx
endswith(s, lx) == Len(s) > 0 /\ s[Len(s)] = lx
contains(s, lx) == \E k \in 1..Len(s) : s[k] = lx
find(s, lx) == CHOOSE k \in 1..Len(s) : s[k] = lx /\ \A j \in 1..(k-1) : s[j] # lx
\* s.split(lx, 1) for a string that contains lx
split_head(s, lx) == SubSeq(s, 1, find(s, lx) - 1)
split_tail(s, lx) == SubSeq(s, find(s, lx) + 1, Len(s))

\* the "generous handling" of an IRI: value[1:-1] when angle-bracketed
strip_angle(v) == IF startswith(v, "<") /\ endswith(v, ">") THEN SubSeq(v, 2, Len(v) - 1) ELSE v

\* the "(digits)" groups that occur in the model's names
SuffixLexemes == {"(1)", "(2)"}

\* a substitution that removes nothing
uniqueness_suffix_none(name) == name

\* uniqueness_suffix_re.sub("", name): the pattern is anchored at the end of
\* the name, so one trailing group is removed and nothing else
uniqueness_suffix_sub(name) ==
    IF Len(name) > 0 /\ name[Len(name)] \in SuffixLexemes
    THEN SubSeq(name, 1, Len(name) - 1)
    ELSE name

-----------------------------------------------------------------------------
(* Namespaces and the prefix dicts *)

RDF == <<"http", ":", "//www.w3.org/1999/02/22-rdf-syntax-ns#">>
RDFS == <<"http", ":", "//www.w3.org/2000/01/rdf-schema#">>
XSD == <<"http", ":", "//www.w3.org/2001/XMLSchema#">>
BACnetNS == <<"http", ":", "//data.ashrae.org/bacnet/2020#">>

\* default_prefixes as the module builds it
DefaultPrefixes ==
    [k \in {<<"rdf">>, <<"rdfs">>, <<"xsd">>} |->
        IF k = <<"rdf">> THEN RDF ELSE IF k = <<"rdfs">> THEN RDFS ELSE XSD]

EmptyDict == [k \in {} |-> << >>]

\* d.setdefault(k, v): the first value of a key stays
dict_setdefault(d, k, v) == [x \in (DOMAIN d) \cup {k} |-> IF x \in DOMAIN d THEN d[x] ELSE v]

\* d[k] = v
dict_set(d, k, v) == [x \in (DOMAIN d) \cup {k} |-> IF x = k THEN v ELSE d[x]]

\* the two dict objects of a run
DefaultRef == "default_prefixes"
CopyRef == "copy"

\* prefixes = default_prefixes: the same dict object under a second name
reset_prefixes_alias(h) == [heap |-> h, ref |-> DefaultRef]

\* prefixes = default_prefixes.copy(): a new dict object with the same items
reset_prefixes(h) == [heap |-> [h EXCEPT ![CopyRef] = h[DefaultRef]], ref |-> CopyRef]

-----------------------------------------------------------------------------
(* RDF terms: URIRef, BNode, Literal *)

URIRef(v) == [t |-> "uri", v |-> v, lang |-> << >>, dt |-> << >>]
BNode(v) == [t |-> "bnode", v |-> v, lang |-> << >>, dt |-> << >>]
Lit(v, dt, lang) == [t |-> "lit", v |-> v, lang |-> lang, dt |-> dt]
NoTerm == [t |-> "", v |-> << >>, lang |-> << >>, dt |-> << >>]

\* exceptions: kind "" is "no exception"
NoExc == [kind |-> "", row |-> 0, what |-> << >>]
Exc(kind, row, what) == [kind |-> kind, row |-> row, what |-> what]

\* name_to_uri(name) under the globals base_name and prefixes
name_to_uri(name, base, pfx) ==
    IF contains(name, ":")
    THEN LET prefix == split_head(name, ":")
             suffix == split_tail(name, ":")
         IN  IF prefix = <<"_">>
             THEN [exc |-> NoExc, term |-> BNode(suffix)]
             ELSE IF prefix \in DOMAIN pfx
             THEN [exc |-> NoExc, term |-> URIRef(pfx[prefix] \o suffix)]
             ELSE [exc |-> Exc("undefined prefix", 0, prefix), term |-> NoTerm]
    ELSE IF base.none
         THEN [exc |-> Exc("TypeError", 0, name), term |-> NoTerm]
         ELSE [exc |-> NoExc, term |-> URIRef(base.s \o name)]

-----------------------------------------------------------------------------
(* The datatype registry and the row validator *)

\* the keys of datatype_cast
datatype_options ==
    {"None", "Null", "Boolean", "Integer", "Real", "Double", "CharacterString",
     "BitString", "Enumerated", "ObjectIdentifier", "ObjectType",
     "PropertyIdentifier", "Date", "Time", "Unsigned", "DateTime"}

\* the strings each library parser of the model accepts
RealLexemes == {<<"72.5">>, <<"72.50">>, <<"1">>}
ObjectTypeLexemes == {<<"analog-value">>}
ObjectIdentifierLexemes == {<<"analog-value", ",", "1">>}

Accepts(datatype, value) ==
    CASE datatype = "CharacterString" -> TRUE
      [] datatype \in {"Real", "Double"} -> value \in RealLexemes
      [] datatype = "ObjectType" -> value \in ObjectTypeLexemes
      [] datatype = "ObjectIdentifier" -> value \in ObjectIdentifierLexemes
      [] OTHER -> FALSE

\* the number a Real holds: float("72.50") is float("72.5")
real_value(v) == IF v = <<"72.50">> THEN <<"72.5">> ELSE v

CastValue(k, v) == [k |-> k, v |-> IF k \in {"Real", "Double"} THEN real_value(v) ELSE v]
NoValue == CastValue("", << >>)

\* _cast(datatype)(value): the cast value, or the exception it raises.
\* None and Null accept only "".  The library types raise ValueError on a
\* string they reject (the docstring of _cast) and TypeError on a value
\* that is no string; CharacterString, a str subclass, takes either.
cast_fn(datatype, value) ==
    IF datatype = "None"
    THEN IF value = << >> THEN [exc |-> "", val |-> CastValue("None", << >>)]
         ELSE [exc |-> "ValueError", val |-> NoValue]
    ELSE IF datatype = "Null"
    THEN IF value = << >> THEN [exc |-> "", val |-> CastValue("Null", << >>)]
         ELSE [exc |-> "ValueError", val |-> NoValue]
    ELSE IF datatype = "CharacterString"
    THEN [exc |-> "", val |-> CastValue("CharacterString", value)]
    ELSE IF value = NonString
    THEN [exc |-> "TypeError", val |-> NoValue]
    ELSE IF Accepts(datatype, value)
    THEN [exc |-> "", val |-> CastValue(datatype, value)]
    ELSE [exc |-> "ValueError", val |-> NoValue]

\* isinstance(tag_value, str): CharacterString is the only str among the
\* cast values
is_str(val) == val.k = "CharacterString"
is_none(val) == val.k = "None"

\* except ValueError
validate_catches_value_only(exc) == exc = "ValueError"

\* except (ValueError, TypeError)
validate_catches(exc) == exc \in {"ValueError", "TypeError"}

\* a validator that stores the cast value back into the row
validate_row_casting(row) ==
    LET c == cast_fn(row.datatype, row.value)
    IN  [row |-> [row EXCEPT !.invalid = IF c.exc = "" THEN "False" ELSE "True",
                             !.value = IF c.exc = "" THEN c.val.v ELSE row.value,
                             !.datatype = "CharacterString"],
         ret |-> IF c.exc = "" THEN "True" ELSE "False"]

\* validate_row(row): the row with its invalid flag set and the value
\* returned, or the exception that leaves the function ("raised: ...")
validate_row(row) ==
    LET exc == IF row.datatype \in datatype_options
               THEN cast_fn(row.datatype, row.value).exc
               ELSE ""
    IN  IF exc = ""
        THEN [row |-> [row EXCEPT !.invalid = "False"], ret |-> "True"]
        ELSE IF validate_catches(exc)
        THEN [row |-> [row EXCEPT !.invalid = "True"], ret |-> "False"]
        ELSE [row |-> row, ret |-> "raised " \o exc]

Row(id, name, value, datatype) ==
    [id |-> id, name |-> name, value |-> value, datatype |-> datatype, invalid |-> "unset"]

-----------------------------------------------------------------------------
(* on_table_change: the object properties *)

Max(S) == CHOOSE m \in S : \A x \in S : x <= m

\* the loop of lines 397-401: the value of the last row of that name, or None
last_value(od, name) ==
    LET ks == {k \in 1..Len(od) : od[k].name = name}
    IN  IF ks = {} THEN None ELSE Str(od[Max(ks)].value)

\* attr_to_asn1 of the attributes of the analog-value object class that the
\* model's rows name (ASHRAE_vendor_info.get_object_class)
property_to_attr ==
    {<<"object-identifier">>, <<"object-name">>, <<"object-type">>,
     <<"present-value">>, <<"description">>, <<"tags">>}

\* one round of the loop of lines 424-436 on the attribute dict of sample_obj
object_row(row, c) ==
    IF row.datatype \notin datatype_options
    THEN [c EXCEPT !.exc = Exc("KeyError", 0, <<row.datatype>>)]
    ELSE LET v == cast_fn(row.datatype, row.value)
         IN  IF v.exc # ""
             THEN [c EXCEPT !.exc = Exc(v.exc, 0, row.value)]
             ELSE IF row.name \notin property_to_attr
             THEN [c EXCEPT !.exc = Exc("is not an attribute", 0, row.name)]
             ELSE [c EXCEPT !.attrs = dict_set(c.attrs, row.name, v.val)]

RECURSIVE object_loop(_, _, _)
object_loop(od, k, c) ==
    IF c.exc.kind # "" \/ k > Len(od) THEN c
    ELSE object_loop(od, k + 1, object_row(od[k], c))

NoAttrs == [k \in {} |-> NoValue]

\* lines 396-436: the exception raised, or the object identifier and the
\* attributes set on sample_obj
object_section(od) ==
    LET obj_type == last_value(od, <<"object-type">>)
        obj_identifier == last_value(od, <<"object-identifier">>)
        start == [exc |-> NoExc, attrs |-> NoAttrs, obj_identifier |-> obj_identifier]
    IN  IF obj_type.none
        THEN [start EXCEPT !.exc = Exc("object-type property is required", 0, << >>)]
        ELSE IF obj_identifier.none
        THEN [start EXCEPT !.exc = Exc("object-identifier property is required", 0, << >>)]
        ELSE LET t == cast_fn("ObjectType", obj_type.s)
             IN  IF t.exc = "ValueError"
                 THEN [start EXCEPT !.exc = Exc("Invalid object-type value", 0, obj_type.s)]
                 ELSE IF t.exc # ""
                 THEN [start EXCEPT !.exc = Exc(t.exc, 0, obj_type.s)]
                 ELSE object_loop(od, 1, start)

-----------------------------------------------------------------------------
(* on_table_change: the walk over the tag rows *)

\* a walk that removes the "(digits)" group before it matches the name
tag_name_stripped(row) == uniqueness_suffix_sub(row.name)

\* tag_name = row["name"]
tag_name_of(row) == row.name

\* an @base handler without the "already specified" test
base_directive_overwriting(i, tag_value, c) ==
    IF ~is_str(tag_value)
    THEN [c EXCEPT !.exc = Exc("@base string expected", i, << >>)]
    ELSE [c EXCEPT !.base_name = Str(strip_angle(tag_value.v))]

\* lines 475-490
base_directive(i, tag_value, c) ==
    IF ~c.base_name.none
    THEN [c EXCEPT !.exc = Exc("@base already specified", i, << >>)]
    ELSE IF ~is_str(tag_value)
    THEN [c EXCEPT !.exc = Exc("@base string expected", i, << >>)]
    ELSE [c EXCEPT !.base_name = Str(strip_angle(tag_value.v))]

\* lines 492-498
id_directive(i, tag_value, c) ==
    IF ~c.id_name.none
    THEN [c EXCEPT !.exc = Exc("@id already specified", i, << >>)]
    ELSE IF ~is_str(tag_value)
    THEN [c EXCEPT !.exc = Exc("@id string expected", i, << >>)]
    ELSE [c EXCEPT !.id_name = Str(tag_value.v)]

\* lines 500-506
language_directive(i, tag_value, c) ==
    IF ~c.language_name.none
    THEN [c EXCEPT !.exc = Exc("@language already specified", i, << >>)]
    ELSE IF ~is_str(tag_value)
    THEN [c EXCEPT !.exc = Exc("@language string expected", i, << >>)]
    ELSE [c EXCEPT !.language_name = Str(tag_value.v)]

\* lines 511-523: the row declares a prefix in the dict bound to prefixes
prefix_declaration(i, tag_name, tag_value, c) ==
    IF ~is_str(tag_value)
    THEN [c EXCEPT !.exc = Exc("prefix string value expected", i, << >>)]
    ELSE [c EXCEPT !.heap[c.ref] =
              dict_set(c.heap[c.ref], SubSeq(tag_name, 1, Len(tag_name) - 1),
                       strip_angle(tag_value.v))]

\* one round of the loop of lines 453-526
tag_row(row, i, c) ==
    LET tag_name == tag_name_of(row)
    IN  IF tag_name = << >>
        THEN [c EXCEPT !.exc = Exc("tag name required", i, << >>)]
        ELSE IF row.datatype \notin datatype_options
        THEN [c EXCEPT !.exc = Exc("KeyError", i, <<row.datatype>>)]
        ELSE LET v == cast_fn(row.datatype, row.value)
                 c1 == [c EXCEPT !.tags = Append(c.tags, [name |-> tag_name, val |-> v.val])]
             IN  IF v.exc # ""
                 THEN [c EXCEPT !.exc = Exc(v.exc, i, row.value)]
                 ELSE IF tag_name = <<"@", "base">>
                 THEN base_directive(i, v.val, c1)
                 ELSE IF tag_name = <<"@", "id">>
                 THEN id_directive(i, v.val, c1)
                 ELSE IF tag_name = <<"@", "language">>
                 THEN language_directive(i, v.val, c1)
                 ELSE IF startswith(tag_name, "@")
                 THEN [c1 EXCEPT !.exc = Exc("unrecognized directive", i, tag_name)]
                 ELSE IF endswith(tag_name, ":")
                 THEN prefix_declaration(i, tag_name, v.val, c1)
                 ELSE [c1 EXCEPT !.statements = c1.statements \cup
                                    {[name |-> tag_name, val |-> v.val]}]

RECURSIVE tag_loop(_, _, _)
tag_loop(td, i, c) ==
    IF c.exc.kind # "" \/ i > Len(td) THEN c
    ELSE tag_loop(td, i + 1, tag_row(td[i], i, c))

\* line 439
vendor_id == 999

\* lines 534-536
fallback_base == <<"http", ":", "//example.com/vendor/", ToString(vendor_id), "/">>

\* lines 438-445: the fresh state of a pass
reset_context(h, ref, base) ==
    [exc |-> NoExc, base_name |-> None, id_name |-> None, language_name |-> None,
     heap |-> reset_prefixes(h).heap, ref |-> reset_prefixes(h).ref,
     tags |-> << >>, statements |-> {}]

-----------------------------------------------------------------------------
(* on_table_change: subject, statements, graph *)

\* obj_identifier.replace(",", "-")
replace_commas(v) == [k \in 1..Len(v) |-> IF v[k] = "," THEN "-" ELSE v[k]]

\* lines 538-545: "if id_name:" is false for None and for ""
subject_of(id_name, obj_identifier, base, pfx) ==
    IF ~id_name.none /\ id_name.s # << >>
    THEN name_to_uri(id_name.s, base, pfx)
    ELSE IF obj_identifier = NonString
    THEN [exc |-> Exc("AttributeError", 0, << >>), term |-> NoTerm]
    ELSE [exc |-> NoExc, term |-> BNode(replace_commas(obj_identifier))]

RDF_type == URIRef(RDF \o <<"type">>)
RDF_PlainLiteral == URIRef(RDF \o <<"PlainLiteral">>)
XSD_anyURI == URIRef(XSD \o <<"anyURI">>)

\* rdflib's Literal(value, datatype=, lang=): an empty lang counts as none,
\* and a literal with both a language and a datatype is a TypeError
Literal(value, datatype, lang) ==
    LET l == IF lang.none THEN << >> ELSE lang.s
    IN  IF l # << >> /\ datatype.t # ""
        THEN [exc |-> Exc("TypeError", 0, value), term |-> NoTerm]
        ELSE [exc |-> NoExc, term |-> Lit(value, datatype.v, l)]

\* bacpypes3's atomic_encode(g, value): a literal typed by the kind of value
atomic_encode(val) == Lit(val.v, <<val.k>>, << >>)

Raise(exc) == [exc |-> exc, triples |-> {}]

\* lines 563-582, once language, datatype and predicate are known
statement_object(st, s, p, language, datatype, base, pfx) ==
    IF is_none(st.val)
    THEN [exc |-> NoExc, triples |-> {<<s, RDF_type, p>>}]
    ELSE IF is_str(st.val)
    THEN IF datatype = XSD_anyURI
         THEN IF startswith(st.val.v, "<") /\ endswith(st.val.v, ">")
              THEN [exc |-> NoExc,
                    triples |-> {<<s, p, URIRef(SubSeq(st.val.v, 2, Len(st.val.v) - 1))>>}]
              ELSE LET o == name_to_uri(st.val.v, base, pfx)
                   IN  IF o.exc.kind # "" THEN Raise(o.exc)
                       ELSE [exc |-> NoExc, triples |-> {<<s, p, o.term>>}]
         ELSE LET o == Literal(st.val.v,
                               IF datatype = RDF_PlainLiteral THEN NoTerm ELSE datatype,
                               language)
              IN  IF o.exc.kind # "" THEN Raise(o.exc)
                  ELSE [exc |-> NoExc, triples |-> {<<s, p, o.term>>}]
    ELSE [exc |-> NoExc, triples |-> {<<s, p, atomic_encode(st.val)>>}]

\* one round of the loop of lines 547-582: the triple added to g, or the
\* exception raised
statement_triple(st, s, language_name, base, pfx) ==
    LET name == uniqueness_suffix_sub(st.name)
        has_lang == contains(name, "@")
        has_dt == ~has_lang /\ contains(name, "^^")
        tag_name == IF has_lang THEN split_head(name, "@")
                    ELSE IF has_dt THEN split_head(name, "^^") ELSE name
        language == IF has_lang THEN Str(split_tail(name, "@")) ELSE language_name
        dt == IF has_dt THEN name_to_uri(split_tail(name, "^^"), base, pfx)
              ELSE [exc |-> NoExc, term |-> NoTerm]
    IN  IF dt.exc.kind # "" THEN Raise(dt.exc)
        ELSE LET p == name_to_uri(tag_name, base, pfx)
             IN  IF p.exc.kind # "" THEN Raise(p.exc)
                 ELSE statement_object(st, s, p.term, language, dt.term, base, pfx)

\* g.add on the graph built so far
statement_add(acc, r) == [exc |-> r.exc, triples |-> acc.triples \cup r.triples]

\* the loop of lines 547-582 over the statements in the order the set
\* yields them: the graph so far and the exception that ended the loop
RECURSIVE statement_loop(_, _, _, _, _, _, _)
statement_loop(order, k, acc, s, language_name, base, pfx) ==
    IF acc.exc.kind # "" \/ k > Len(order) THEN acc
    ELSE statement_loop(order, k + 1,
                        statement_add(acc, statement_triple(order[k], s, language_name, base, pfx)),
                        s, language_name, base, pfx)

\* the orders in which a Python set may yield its elements
Orders(S) ==
    {o \in [1..Cardinality(S) -> S] : \A a, b \in 1..Cardinality(S) : a # b => o[a] # o[b]}

\* bacpypes3's sequence_to_graph(sample_obj, s, g): one triple of subject s
\* for each attribute set on the object
sequence_to_graph(attrs, s) ==
    {<<s, URIRef(BACnetNS \o a), atomic_encode(attrs[a])>> : a \in DOMAIN attrs}

\* what a pass leaves: the exception that ended it (kind "" for none), the
\* graph g as far as it was built, and the globals
pass_result(exc, g, c, b) ==
    [exc |-> exc, g |-> g, heap |-> c.heap, ref |-> c.ref, base_name |-> b]

\* line 584, or the exception of the statement loop
compile_graph(o, c, b, s, l) ==
    IF l.exc.kind # "" THEN pass_result(l.exc, l.triples, c, b)
    ELSE pass_result(NoExc, l.triples \cup sequence_to_graph(o.attrs, s.term), c, b)

\* lines 547-582 under the subject s
compile_statements(o, c, b, s, order) ==
    IF s.exc.kind # "" THEN pass_result(s.exc, {}, c, b)
    ELSE compile_graph(o, c, b, s,
                       statement_loop(order, 1, [exc |-> NoExc, triples |-> {}],
                                      s.term, c.language_name, b, c.heap[c.ref]))

\* lines 534-536: default base name if @base not specified
default_base(b) == IF b.none THEN Str(fallback_base) ELSE b

\* lines 534-545 after the walk c over the tag rows
compile_subject(o, c, b, order) ==
    compile_statements(o, c, b, subject_of(c.id_name, o.obj_identifier.s, b, c.heap[c.ref]), order)

compile_tags(o, c, order) ==
    IF c.exc.kind # "" THEN pass_result(c.exc, {}, c, c.base_name)
    ELSE compile_subject(o, c, default_base(c.base_name), order)

compile_object(o, td, order, h, ref, base) ==
    IF o.exc.kind # ""
    THEN [exc |-> o.exc, g |-> {}, heap |-> h, ref |-> ref, base_name |-> base]
    ELSE compile_tags(o, tag_loop(td, 1, reset_context(h, ref, base)), order)

\* lines 391-589 for one iteration order of the statement set
compile(od, td, order, h, ref, base) ==
    compile_object(object_section(od), td, order, h, ref, base)

\* an error display that keeps the triples added before the exception
block_content_partial(r) ==
    IF r.exc.kind = ""
    THEN [kind |-> "turtle", triples |-> r.g, error |-> NoExc]
    ELSE [kind |-> "error", triples |-> r.g, error |-> r.exc]

\* lines 585 and 587-589: the serialized graph, or "Error: ..." and nothing
\* of the graph
block_content(r) ==
    IF r.exc.kind = ""
    THEN [kind |-> "turtle", triples |-> r.g, error |-> NoExc]
    ELSE [kind |-> "error", triples |-> {}, error |-> r.exc]

-----------------------------------------------------------------------------
(* The handlers of the two tables *)

Tables == {"obj", "tag"}
data(t) == IF t = "obj" THEN obj_data ELSE tag_data
next_id(t) == IF t = "obj" THEN obj_next_id ELSE tag_next_id

\* the statement set the walk over the tag rows builds (empty when the pass
\* ends before the statements are read)
statements_in(c) == IF c.exc.kind # "" THEN {} ELSE c.statements
statements_of(od, td) ==
    IF object_section(od).exc.kind # "" THEN {}
    ELSE statements_in(tag_loop(td, 1, reset_context(heap, prefixes, base_name)))

\* set_code_content(block_content) and the globals the pass assigned
display(r) ==
    /\ heap' = r.heap
    /\ prefixes' = r.ref
    /\ base_name' = r.base_name
    /\ code_content' = block_content(r)
    /\ in_sync' = TRUE
    /\ earlier' = earlier
                   \cup (IF DOMAIN r.heap[r.ref] \subseteq DOMAIN DefaultPrefixes THEN {} ELSE {"prefix"})
                   \cup (IF r.base_name \in {None, Str(fallback_base)} THEN {} ELSE {"base"})

\* on_table_change on the rows od and td, followed by set_code_content
on_table_change(od, td) ==
    \E order \in Orders(statements_of(od, td)) :
        display(compile(od, td, order, heap, prefixes, base_name))

\* the rows as on_table_change reads them: the flag "invalid" is not read
content(rows) == [k \in 1..Len(rows) |-> [rows[k] EXCEPT !.invalid = "unset"]]

no_pass(od, td) ==
    /\ UNCHANGED <<heap, prefixes, base_name, code_content, earlier>>
    /\ in_sync' = (in_sync /\ od = content(obj_data) /\ td = content(tag_data))

set_rows(t, rows) ==
    IF t = "obj" THEN obj_data' = rows /\ tag_data' = tag_data
    ELSE tag_data' = rows /\ obj_data' = obj_data

index_of(rows, row_id) ==
    CHOOSE k \in 1..Len(rows) : rows[k].id = row_id /\ \A j \in 1..(k-1) : rows[j].id # row_id

has_id(rows, row_id) == \E k \in 1..Len(rows) : rows[k].id = row_id

set_cell(row, col_idx, new_value) ==
    IF col_idx = 0 THEN [row EXCEPT !.name = new_value]
    ELSE IF col_idx = 1 THEN [row EXCEPT !.value = new_value]
    ELSE [row EXCEPT !.datatype = new_value[1]]

\* what one validate_row call did: the exception the cast raised, what the
\* call returned (or raised), and the flag it left on the row
validate_record(row) ==
    [exc |-> IF row.datatype \in datatype_options
             THEN cast_fn(row.datatype, row.value).exc ELSE "",
     ret |-> validate_row(row).ret,
     invalid |-> validate_row(row).row.invalid]

\* the ids of the rows
ids_of(rows) == {rows[k].id : k \in 1..Len(rows)}

\* no add_row or delete_row call is the latest event
NoTableCall == [op |-> "", t |-> "", row_id |-> 0, present |-> FALSE,
                on_change |-> FALSE, unchanged |-> FALSE]

\* an event that is neither add_row nor delete_row
other_event ==
    /\ UNCHANGED <<ever_ids, removed_ids, added_ids>>
    /\ last_call' = NoTableCall

\* on_cell_change (lines 244-289)
OnCellChange(t, row_id, col_idx, new_value) ==
    /\ UNCHANGED <<obj_next_id, tag_next_id>>
    /\ other_event
    /\ IF has_id(data(t), row_id)
       THEN LET k == index_of(data(t), row_id)
                edited == set_cell(data(t)[k], col_idx, new_value)
                v == validate_row(edited)
                rows == [data(t) EXCEPT ![k] = v.row]
            IN  /\ set_rows(t, rows)
                /\ validate_ret' = validate_record(edited)
                /\ IF v.ret \in {"True", "False"} /\ col_idx = 2
                   THEN on_table_change(IF t = "obj" THEN rows ELSE obj_data,
                                        IF t = "tag" THEN rows ELSE tag_data)
                   ELSE no_pass(IF t = "obj" THEN content(rows) ELSE content(obj_data),
                                IF t = "tag" THEN content(rows) ELSE content(tag_data))
       ELSE /\ UNCHANGED <<obj_data, tag_data, validate_ret>>
            /\ IF col_idx = 2 THEN on_table_change(obj_data, tag_data)
               ELSE UNCHANGED <<heap, prefixes, base_name, code_content, in_sync, earlier>>

\* on_cell_blur (lines 291-294)
OnCellBlur(t) ==
    /\ UNCHANGED <<obj_data, tag_data, obj_next_id, tag_next_id, validate_ret>>
    /\ other_event
    /\ on_table_change(obj_data, tag_data)

\* self.next_id = self.next_id
next_id_kept(n) == n

\* self.next_id += 1
next_id_incremented(n) == n + 1

\* add_row (lines 301-316)
AddRow(t) ==
    /\ LET new_row == Row(next_id(t), <<"tag-name">>, <<"tag-value">>, "CharacterString")
           rows == Append(data(t), new_row)
       IN  /\ set_rows(t, rows)
           /\ IF t = "obj"
              THEN obj_next_id' = next_id_incremented(obj_next_id) /\ tag_next_id' = tag_next_id
              ELSE tag_next_id' = next_id_incremented(tag_next_id) /\ obj_next_id' = obj_next_id
           /\ on_table_change(IF t = "obj" THEN rows ELSE obj_data,
                              IF t = "tag" THEN rows ELSE tag_data)
    /\ UNCHANGED <<validate_ret, removed_ids>>
    /\ ever_ids' = [ever_ids EXCEPT ![t] = @ \cup {next_id(t)}]
    /\ added_ids' = [added_ids EXCEPT ![t] = @ \cup {next_id(t)}]
    /\ last_call' = [op |-> "add_row", t |-> t, row_id |-> next_id(t), present |-> FALSE,
                     on_change |-> TRUE, unchanged |-> FALSE]

\* add_row while the table holds fewer than max_rows rows and next_id is
\* below max_id
AddRowWithin(t, max_rows, max_id) ==
    /\ Len(data(t)) < max_rows
    /\ next_id(t) < max_id
    /\ AddRow(t)

\* delete_row (lines 318-334), reached from on_delete_row
DeleteRow(t, row_id) ==
    /\ UNCHANGED <<obj_next_id, tag_next_id, validate_ret, ever_ids, added_ids>>
    /\ IF has_id(data(t), row_id)
       THEN LET k == index_of(data(t), row_id)
                rows == SubSeq(data(t), 1, k - 1) \o SubSeq(data(t), k + 1, Len(data(t)))
            IN  /\ set_rows(t, rows)
                /\ on_table_change(IF t = "obj" THEN rows ELSE obj_data,
                                   IF t = "tag" THEN rows ELSE tag_data)
                /\ removed_ids' = [removed_ids EXCEPT ![t] = @ \cup {row_id}]
                /\ last_call' = [op |-> "delete_row", t |-> t, row_id |-> row_id, present |-> TRUE,
                                 on_change |-> TRUE, unchanged |-> FALSE]
       ELSE /\ UNCHANGED <<obj_data, tag_data, heap, prefixes, base_name, code_content,
                           in_sync, earlier, removed_ids>>
            /\ last_call' = [op |-> "delete_row", t |-> t, row_id |-> row_id, present |-> FALSE,
                             on_change |-> FALSE,
                             unchanged |-> /\ obj_data' = obj_data /\ tag_data' = tag_data
                                           /\ obj_next_id' = obj_next_id
                                           /\ tag_next_id' = tag_next_id
                                           /\ code_content' = code_content]

\* validate_row called on the k-th row of a table (the loop of lines 174-175)
ValidateRow(t, k) ==
    /\ k \in 1..Len(data(t))
    /\ LET v == validate_row(data(t)[k])
       IN  /\ set_rows(t, [data(t) EXCEPT ![k] = v.row])
           /\ validate_ret' = validate_record(data(t)[k])
    /\ UNCHANGED <<obj_next_id, tag_next_id, heap, prefixes, base_name, code_content, in_sync, earlier>>
    /\ other_event

-----------------------------------------------------------------------------
(* Initial states *)

\* ui.code(""): nothing compiled yet
NoContent == [kind |-> "", triples |-> {}, error |-> NoExc]
NoCall == [exc |-> "", ret |-> "", invalid |-> "unset"]

\* the rows of a table once ObjectPropertyTable.__init__ has validated them
\* (lines 174-175); ids 0, 1, ... as in obj_data
table_rows(contents) ==
    [k \in 1..Len(contents) |->
        validate_row(Row(k - 1, contents[k][1], contents[k][2], contents[k][3])).row]

\* obj_data as written in lines 361-375
obj_data_default ==
    << <<<<"object-name">>, <<"Analog Value 1">>, "CharacterString">>,
       <<<<"object-identifier">>, <<"analog-value", ",", "1">>, "ObjectIdentifier">>,
       <<<<"object-type">>, <<"analog-value">>, "ObjectType">> >>

\* the module-level dicts before the first pass
heap_init == [r \in {DefaultRef, CopyRef} |-> IF r = DefaultRef THEN DefaultPrefixes ELSE EmptyDict]

\* the module-level state before the first event: prefixes = {} (line 42),
\* base_name not yet assigned
globals_init ==
    /\ heap = heap_init
    /\ prefixes = CopyRef
    /\ base_name = None
    /\ code_content = NoContent
    /\ in_sync = FALSE
    /\ validate_ret = NoCall
    /\ earlier = {}
    /\ ever_ids = [t \in Tables |-> ids_of(data(t))]
    /\ removed_ids = [t \in Tables |-> {}]
    /\ added_ids = [t \in Tables |-> {}]
    /\ last_call = NoTableCall

\* the program as it starts: lines 361-376 and 594-606
Init ==
    /\ obj_data = table_rows(obj_data_default)
    /\ tag_data = << >>
    /\ obj_next_id = 3
    /\ tag_next_id = 0
    /\ globals_init

\* what the cell-change events of the session carry: a name (column 0),
\* a value (column 1), a datatype (column 2)
CellInputs(col_idx) ==
    IF col_idx = 0 THEN {<<"p", ":">>, <<"p", ":", "foo">>, <<"@", "base">>}
    ELSE IF col_idx = 1 THEN {NonString}
    ELSE {<<"Real">>}

Next ==
    \/ \E t \in Tables : OnCellBlur(t)
    \/ AddRowWithin("tag", MaxRows, MaxId)
    \/ \E row_id \in 0..(MaxId - 1) : DeleteRow("tag", row_id)
    \/ \E t \in Tables : \E k \in 1..MaxRows : ValidateRow(t, k)
    \/ \E row_id \in 0..(MaxId - 1) : \E col_idx \in 0..2 : \E v \in CellInputs(col_idx) :
           OnCellChange("tag", row_id, col_idx, v)

Spec == Init /\ [][Next]_vars

-----------------------------------------------------------------------------
(* Passes over given rows: the tag rows are drawn from a pool of row        *)
(* contents <<name, value, datatype>>, the object rows from a few tables    *)

IRI_x == <<"<", "http", ":", "//x/", ">">>
IRI_y == <<"http", ":", "//y/">>
IRI_av1 == <<"<", "http", ":", "//ex/av1", ">">>

\* rows around the directives
DirectiveRows ==
    { <<<<"@", "base">>, IRI_x, "CharacterString">>,
      <<<<"@", "base">>, <<"72.5">>, "Real">>,
      <<<<"@", "base">>, <<"abc">>, "Real">>,
      <<<<"@", "base", "(1)">>, IRI_x, "CharacterString">>,
      <<<<"@", "foo">>, <<"a">>, "CharacterString">>,
      <<<<"@", "language">>, <<"en">>, "CharacterString">>,
      <<<< >>, <<"a">>, "CharacterString">>,
      <<<<"p", ":">>, IRI_x, "CharacterString">>,
      <<<<"p", ":", "(2)">>, IRI_x, "CharacterString">>,
      <<<<"p", ":", "foo">>, <<"a">>, "CharacterString">> }

\* rows around the subject, the prefixes and the statements
StatementRows ==
    { <<<<"@", "id">>, IRI_av1, "CharacterString">>,
      <<<<"@", "id">>, << >>, "CharacterString">>,
      <<<<"@", "id">>, <<"p", ":", "x">>, "CharacterString">>,
      <<<<"p", ":">>, IRI_x, "CharacterString">>,
      <<<<"p", ":">>, IRI_y, "CharacterString">>,
      <<<<"xsd", ":">>, IRI_y, "CharacterString">>,
      <<<<"temp">>, <<"72.5">>, "Real">>,
      <<<<"p", ":", "foo">>, <<"a">>, "CharacterString">>,
      <<<<"note", "^^", "p", ":", "T">>, <<"a">>, "CharacterString">>,
      <<<<"flag">>, <<"abc">>, "None">> }

\* rows around the uniqueness suffix
SuffixRows ==
    { <<<<"note", "(1)">>, <<"a">>, "CharacterString">>,
      <<<<"note", "(2)">>, <<"b">>, "CharacterString">>,
      <<<<"note", "(1)">>, <<"72.5">>, "Real">>,
      <<<<"note", "(2)">>, <<"72.50">>, "Real">>,
      <<<<"note", "(1)", "@", "en">>, <<"a">>, "CharacterString">>,
      <<<<"note">>, <<"a">>, "CharacterString">>,
      <<<<"@", "base">>, IRI_x, "CharacterString">> }

\* the object properties of the end-to-end scenario, and tables a pass rejects
obj_data_scenario ==
    << <<<<"object-type">>, <<"analog-value">>, "ObjectType">>,
       <<<<"object-identifier">>, <<"analog-value", ",", "1">>, "ObjectIdentifier">> >>
obj_data_no_type ==
    << <<<<"object-identifier">>, <<"analog-value", ",", "1">>, "ObjectIdentifier">> >>
obj_data_illegal ==
    << <<<<"object-type">>, <<"analog-value">>, "ObjectType">>,
       <<<<"object-identifier">>, <<"analog-value", ",", "1">>, "ObjectIdentifier">>,
       <<<<"tag-name">>, <<"tag-value">>, "CharacterString">> >>

Lists(pool) == UNION {[1..n -> pool] : n \in 0..MaxTags}

InitRows(objs, pool) ==
    /\ obj_data \in {table_rows(o) : o \in objs}
    /\ tag_data \in {table_rows(l) : l \in Lists(pool)}
    /\ obj_next_id = Len(obj_data)
    /\ tag_next_id = Len(tag_data)
    /\ globals_init

InitDirectives == InitRows({obj_data_default, obj_data_no_type}, DirectiveRows)
InitStatements == InitRows({obj_data_scenario, obj_data_no_type, obj_data_illegal}, StatementRows)
InitSuffixes == InitRows({obj_data_default}, SuffixRows)

\* a pass over the rows, and the passes that follow when rows are deleted
NextPass ==
    \/ \E t \in Tables : OnCellBlur(t)
    \/ \E row_id \in 0..(MaxTags - 1) : DeleteRow("tag", row_id)

SpecDirectives == InitDirectives /\ [][NextPass]_vars
SpecStatements == InitStatements /\ [][NextPass]_vars
SpecSuffixes == InitSuffixes /\ [][NextPass]_vars

\* the sequences of pairwise distinct ids a table may start with
InitIds ==
    {ids \in UNION {[1..n -> 0..(MaxInitId - 1)] : n \in 0..2} :
        \A a, b \in 1..Len(ids) : a # b => ids[a] # ids[b]}

\* rows of the content add_row gives a row, carrying the given ids
rows_with_ids(ids) ==
    [k \in 1..Len(ids) |->
        validate_row(Row(ids[k], <<"tag-name">>, <<"tag-value">>, "CharacterString")).row]

\* next_id as ObjectPropertyTable.__init__ sets it (lines 129-133)
initial_next_id(rows) == IF Len(rows) = 0 THEN 0 ELSE Max(ids_of(rows)) + 1

\* two tables constructed on rows with pairwise distinct ids
InitTables ==
    /\ obj_data \in {table_rows(obj_data_default)} \cup {rows_with_ids(ids) : ids \in InitIds}
    /\ tag_data \in {rows_with_ids(ids) : ids \in InitIds}
    /\ obj_next_id = initial_next_id(obj_data)
    /\ tag_next_id = initial_next_id(tag_data)
    /\ globals_init

\* add_row and delete_row calls on either table
NextTables ==
    \/ \E t \in Tables : AddRowWithin(t, MaxTableRows, MaxTableId)
    \/ \E t \in Tables : \E row_id \in 0..(MaxTableId - 1) : DeleteRow(t, row_id)

SpecTables == InitTables /\ [][NextTables]_vars

-----------------------------------------------------------------------------
(* What the rows on display say, read off the rows alone *)

TagIndex == 1..Len(tag_data)
ObjIndex == 1..Len(obj_data)

\* the rows are the given contents <<name, value, datatype>>, in order
RowsAre(rows, contents) ==
    /\ Len(rows) = Len(contents)
    /\ \A k \in 1..Len(rows) :
           <<rows[k].name, rows[k].value, rows[k].datatype>> = contents[k]

Named(k, name) == tag_data[k].name = name
IsDirective(k) == startswith(tag_data[k].name, "@")
IsKnownDirective(k) ==
    tag_data[k].name \in {<<"@", "base">>, <<"@", "id">>, <<"@", "language">>}
IsPrefixRow(k) == ~IsDirective(k) /\ endswith(tag_data[k].name, ":")
IsStatementRow(k) ==
    tag_data[k].name # << >> /\ ~IsDirective(k) /\ ~endswith(tag_data[k].name, ":")

CastFails(row) ==
    row.datatype \notin datatype_options \/ cast_fn(row.datatype, row.value).exc # ""
CastOf(row) == cast_fn(row.datatype, row.value).val

\* the row fails in the walk over the tag rows, whatever follows it
WalkFault(k) ==
    \/ tag_data[k].name = << >>
    \/ CastFails(tag_data[k])
    \/ IsDirective(k) /\ ~IsKnownDirective(k)
    \/ IsKnownDirective(k) /\ \E j \in 1..(k - 1) : tag_data[j].name = tag_data[k].name
    \/ (IsKnownDirective(k) \/ IsPrefixRow(k)) /\ ~is_str(CastOf(tag_data[k]))

\* the prefix a row declares
DeclaredPrefix(k) == SubSeq(tag_data[k].name, 1, Len(tag_data[k].name) - 1)
Declares(k, prefix) == IsPrefixRow(k) /\ DeclaredPrefix(k) = prefix
LastDeclaration(prefix) == Max({k \in TagIndex : Declares(k, prefix)})

\* the namespace of a prefix once every row has been read
KnownPrefix(prefix) ==
    prefix \in DOMAIN DefaultPrefixes \/ \E k \in TagIndex : Declares(k, prefix)
NamespaceOf(prefix) ==
    IF \E k \in TagIndex : Declares(k, prefix)
    THEN strip_angle(tag_data[LastDeclaration(prefix)].value)
    ELSE DefaultPrefixes[prefix]

\* the base once every row has been read
BaseOf ==
    IF \E k \in TagIndex : Named(k, <<"@", "base">>)
    THEN strip_angle(tag_data[CHOOSE k \in TagIndex : Named(k, <<"@", "base">>) /\ \A j \in 1..(k - 1) : ~Named(j, <<"@", "base">>)].value)
    ELSE fallback_base

\* a name that cannot be resolved: its prefix is neither "_" nor declared
Unresolvable(name) ==
    /\ contains(name, ":")
    /\ split_head(name, ":") # <<"_">>
    /\ ~KnownPrefix(split_head(name, ":"))

\* what a resolvable name resolves to
Resolved(name) ==
    IF ~contains(name, ":") THEN URIRef(BaseOf \o name)
    ELSE IF split_head(name, ":") = <<"_">> THEN BNode(split_tail(name, ":"))
    ELSE URIRef(NamespaceOf(split_head(name, ":")) \o split_tail(name, ":"))

-----------------------------------------------------------------------------
(* The claims *)

ObjectsCompile == object_section(obj_data).exc.kind = ""
Failed == code_content.kind = "error"
Succeeded == code_content.kind = "turtle"

\* C1: the end-to-end scenario (object-type "analog-value", object-identifier
\* "analog-value,1", tag rows @id = "<http://ex/av1>" and temp = "72.5" of
\* datatype Real) ends without error and its graph holds a triple whose
\* subject is http://ex/av1 and whose predicate is the base extended with
\* "temp".
C1_EndToEnd ==
    ( /\ in_sync
      /\ RowsAre(obj_data, obj_data_scenario)
      /\ RowsAre(tag_data, << <<<<"@", "id">>, IRI_av1, "CharacterString">>,
                              <<<<"temp">>, <<"72.5">>, "Real">> >>) )
    => /\ Succeeded
       /\ \E t \in code_content.triples :
              /\ t[1] = URIRef(<<"http", ":", "//ex/av1">>)
              /\ t[2] = URIRef(fallback_base \o <<"temp">>)

BaseRows == {k \in TagIndex : Named(k, <<"@", "base">>)}
TwoBaseRows == Cardinality(BaseRows) >= 2
SecondBase == CHOOSE k \in BaseRows : Cardinality({j \in BaseRows : j < k}) = 1
DuplicateBase == Failed /\ code_content.error.kind = "@base already specified"

\* C2 as claimed: a tag list with two rows named @base always ends with the
\* duplicate-directive error, whatever the other rows and the values and
\* datatypes of the two @base rows are.
C2_AlwaysDuplicateError == (in_sync /\ ObjectsCompile /\ TwoBaseRows) => DuplicateBase

\* the pass reaches the second @base row and casts its value
ReachesSecondBase ==
    /\ ObjectsCompile
    /\ \A j \in 1..(SecondBase - 1) : ~WalkFault(j)
    /\ ~CastFails(tag_data[SecondBase])

\* C2 as amended: a tag list with two rows named @base always ends with an
\* error and no graph; the error is "@base already specified", raised at the
\* second @base row, exactly when the object properties compile, no row
\* before the second @base row fails (empty name, failed cast, unrecognized
\* or repeated directive, non-string value of a directive or prefix row) and
\* the second @base row's value casts.
C2_DuplicateWhenReached ==
    (in_sync /\ TwoBaseRows) =>
        /\ Failed
        /\ code_content.triples = {}
        /\ ReachesSecondBase <=>
               code_content.error = Exc("@base already specified", SecondBase, << >>)

C2_Witness ==
    /\ in_sync /\ TwoBaseRows /\ DuplicateBase
    /\ Len(tag_data) = 3
    /\ SecondBase = 3
    /\ ~is_str(CastOf(tag_data[3]))


\* what a first pass over the rows od and td may display
FreshOutputs(od, td) ==
    {block_content(compile(od, td, order, heap_init, CopyRef, None)) :
        order \in Orders(statements_in(tag_loop(td, 1, reset_context(heap_init, CopyRef, None))))}

\* the tag rows with the trailing "(digits)" group of each name removed
SuffixesRemoved ==
    [k \in TagIndex |-> [tag_data[k] EXCEPT !.name = uniqueness_suffix_sub(tag_data[k].name)]]

HasSuffix(name) == Len(name) > 0 /\ name[Len(name)] \in SuffixLexemes

Reaches(k) ==
    /\ ObjectsCompile
    /\ \A j \in 1..(k - 1) : ~WalkFault(j)
    /\ tag_data[k].name # << >>
    /\ ~CastFails(tag_data[k])

IdRows == {k \in TagIndex : Named(k, <<"@", "id">>)}
Subjects == {t[1] : t \in code_content.triples}
AnonymousSubject == BNode(replace_commas(last_value(obj_data, <<"object-identifier">>).s))

\* C4: when an @id row was given, whatever string it carries (the empty
\* string included), the subject of all emitted triples is what the name
\* resolver returns for that string; the anonymous node labelled with the
\* object identifier is the subject only when no @id row was given.
C4_SubjectFromId ==
    (in_sync /\ Succeeded) =>
        IF IdRows = {}
        THEN Subjects = {AnonymousSubject}
        ELSE \A k \in IdRows : Subjects = {Resolved(tag_data[k].value)}

NoteRows(n) == {k \in TagIndex : Named(k, <<"note", n>>)}
HasSuffixLexeme(v) == \E k \in 1..Len(v) : v[k] \in SuffixLexemes
Predicates == {t[2] : t \in code_content.triples}
NotePredicate == URIRef(BaseOf \o <<"note">>)

\* two rows note(1), note(2) give two triples of one subject and of the
\* predicate "note" resolves to
TwoNoteTriples(differ(_, _)) ==
    \A k1 \in NoteRows("(1)"), k2 \in NoteRows("(2)") :
        differ(tag_data[k1], tag_data[k2]) =>
            \E t1, t2 \in code_content.triples :
                /\ t1 # t2
                /\ t1[1] = t2[1]
                /\ t1[2] = NotePredicate /\ t2[2] = NotePredicate
                /\ t1[3].v = CastOf(tag_data[k1]).v /\ t2[3].v = CastOf(tag_data[k2]).v

ValuesDiffer(r1, r2) == r1.value # r2.value
CastsDiffer(r1, r2) == CastOf(r1) # CastOf(r2)

SuffixInside(name) == \E k \in 1..(Len(name) - 1) : name[k] \in SuffixLexemes

ObjectFault ==
    \/ \A k \in ObjIndex : obj_data[k].name # <<"object-type">>
    \/ \A k \in ObjIndex : obj_data[k].name # <<"object-identifier">>
    \/ cast_fn("ObjectType", last_value(obj_data, <<"object-type">>).s).exc # ""
    \/ \E k \in ObjIndex : CastFails(obj_data[k]) \/ obj_data[k].name \notin property_to_attr

\* the parts of a statement name: the name proper, "@lang", "^^type"
StatementName(k) == uniqueness_suffix_sub(tag_data[k].name)
HasLang(k) == contains(StatementName(k), "@")
HasType(k) == ~HasLang(k) /\ contains(StatementName(k), "^^")
NameProper(k) ==
    IF HasLang(k) THEN split_head(StatementName(k), "@")
    ELSE IF HasType(k) THEN split_head(StatementName(k), "^^")
    ELSE StatementName(k)
TypeName(k) == split_tail(StatementName(k), "^^")
LanguageOf(k) ==
    IF HasLang(k) THEN split_tail(StatementName(k), "@")
    ELSE IF \E j \in TagIndex : Named(j, <<"@", "language">>)
    THEN tag_data[CHOOSE j \in TagIndex : Named(j, <<"@", "language">>)].value
    ELSE << >>

\* a statement row the statement builder rejects, given that the walk over
\* the tag rows found no fault
StatementFault(k) ==
    \/ Unresolvable(NameProper(k))
    \/ HasType(k) /\ Unresolvable(TypeName(k))
    \/ /\ HasType(k) /\ ~Unresolvable(TypeName(k))
       /\ is_str(CastOf(tag_data[k]))
       /\ IF Resolved(TypeName(k)) = XSD_anyURI
          THEN /\ ~(startswith(tag_data[k].value, "<") /\ endswith(tag_data[k].value, ">"))
               /\ Unresolvable(tag_data[k].value)
          ELSE Resolved(TypeName(k)) # RDF_PlainLiteral /\ LanguageOf(k) # << >>

\* the subject cannot be resolved
SubjectFault ==
    \E k \in IdRows : tag_data[k].value # << >> /\ Unresolvable(tag_data[k].value)

\* some row fails
AnyFault ==
    \/ ObjectFault
    \/ \E k \in TagIndex : WalkFault(k)
    \/ SubjectFault
    \/ \E k \in TagIndex : IsStatementRow(k) /\ StatementFault(k)

\* the graph holds what every row contributes
CompleteGraph ==
    /\ \A k \in ObjIndex :
           \E t \in code_content.triples :
               t[2] = URIRef(BACnetNS \o obj_data[k].name) /\ t[3].v = CastOf(obj_data[k]).v
    /\ \A k \in TagIndex :
           IsStatementRow(k) =>
               \E t \in code_content.triples :
                   IF is_none(CastOf(tag_data[k]))
                   THEN t[2] = RDF_type /\ t[3] = Resolved(NameProper(k))
                   ELSE t[2] = Resolved(NameProper(k))
    /\ Cardinality(Subjects) = 1

\* C5: a pass displays either the serialization of the complete graph or
\* one error message; whenever a row fails (cast error, duplicate or
\* unrecognized directive, wrong-shaped directive value, undefined prefix,
\* missing or illegal object property) it displays the error message and no
\* triple, not even one built from a row read before the failing one.
C5_GraphOrError ==
    in_sync =>
        /\ Succeeded \/ Failed
        /\ Failed <=> AnyFault
        /\ Failed => code_content.triples = {} /\ code_content.error.kind # ""
        /\ Succeeded => code_content.error = NoExc /\ CompleteGraph

\* a statement row that resolves stands before one that does not
C5_Witness ==
    /\ in_sync /\ Failed
    /\ code_content.error.kind = "undefined prefix"
    /\ Len(tag_data) >= 2
    /\ Named(1, <<"temp">>)
    /\ Named(2, <<"p", ":", "foo">>)

\* C10: prefixed names are resolved against the prefix table as it stands
\* when the whole tag list has been read: declaring a prefix twice, or
\* redeclaring a default prefix, raises no error and the last declaration
\* wins; a statement name, a ^^datatype name or an @id value that uses prefix
\* p resolves to the namespace declared for p extended with its suffix,
\* whether the "p:" row stands before or after the row that uses it.
C10_LastDeclarationWins ==
    (in_sync /\ ObjectsCompile /\ \A k \in TagIndex : ~WalkFault(k)) =>
        /\ \A k \in TagIndex :
               IsPrefixRow(k) =>
                   heap[prefixes][DeclaredPrefix(k)] =
                       strip_angle(tag_data[LastDeclaration(DeclaredPrefix(k))].value)
        /\ Failed =>
               /\ code_content.error.kind \in {"undefined prefix", "TypeError"}
               /\ SubjectFault \/ \E k \in TagIndex : IsStatementRow(k) /\ StatementFault(k)
        /\ Succeeded =>
               /\ \A k \in TagIndex :
                      (IsStatementRow(k) /\ ~is_none(CastOf(tag_data[k]))) =>
                          \E t \in code_content.triples :
                              /\ t[2] = Resolved(NameProper(k))
                              /\ (HasType(k) /\ Resolved(TypeName(k)) \notin {XSD_anyURI, RDF_PlainLiteral})
                                     => t[3].dt = Resolved(TypeName(k)).v
               /\ \A k \in IdRows :
                      tag_data[k].value # << >> => Subjects = {Resolved(tag_data[k].value)}

\* a name that uses p is read before p is declared, and p is declared twice
C10_Witness ==
    /\ in_sync /\ Succeeded
    /\ Len(tag_data) = 3
    /\ Named(1, <<"p", ":", "foo">>)
    /\ Named(2, <<"p", ":">>) /\ Named(3, <<"p", ":">>)
    /\ tag_data[2].value # tag_data[3].value
    /\ URIRef(IRI_y \o <<"foo">>) \in Predicates


\* C6: the result of a pass depends only on the two row sequences as they
\* are when it runs: after any earlier passes, successful or failed, the
\* pass starts from base, subject id and language unset and from the default
\* prefixes rdf, rdfs and xsd, so a prefix or base that the tags of an
\* earlier pass declared and the current tags do not has no effect, and
\* the default prefix table itself is never modified.
C6_PassStartsFresh ==
    /\ heap[DefaultRef] = DefaultPrefixes
    /\ in_sync => code_content \in FreshOutputs(obj_data, tag_data)
    /\ (in_sync /\ ObjectsCompile) =>
           /\ prefixes = CopyRef
           /\ \A k \in DOMAIN heap[prefixes] :
                  \/ \E j \in TagIndex : Declares(j, k)
                  \/ k \in DOMAIN DefaultPrefixes /\ heap[prefixes][k] = DefaultPrefixes[k]
           /\ (\A j \in TagIndex : ~Named(j, <<"@", "base">>)) =>
                  base_name \in {None, Str(fallback_base)}

\* passes before this one declared a prefix and a base; the rows of this
\* one declare neither, and a name that uses the prefix is not resolved
C6_Witness ==
    /\ in_sync
    /\ earlier = {"prefix", "base"}
    /\ \A j \in TagIndex : ~IsPrefixRow(j) /\ ~Named(j, <<"@", "base">>)
    /\ code_content.error = Exc("undefined prefix", 0, <<"p">>)
    /\ base_name = Str(fallback_base)

\* C7 as claimed: validate_row catches only the value-shape error of the
\* cast; a type-confusion error of the cast is not caught: it leaves
\* validate_row and the row's invalid flag is not set.
C7_TypeErrorPropagates ==
    validate_ret.exc = "TypeError" =>
        validate_ret.ret = "raised TypeError" /\ validate_ret.invalid # "True"

\* C7 as amended: validate_row catches both the value-shape error
\* (ValueError) and the type-confusion error (TypeError) of the cast: either
\* one sets the row's invalid flag and makes it return false, and nothing
\* leaves validate_row; a cast that raises nothing clears the flag and makes
\* it return true.
C7_BothErrorsCaught ==
    /\ validate_ret.exc \in {"ValueError", "TypeError"} =>
           validate_ret.ret = "False" /\ validate_ret.invalid = "True"
    /\ (validate_ret.exc = "" /\ validate_ret.ret # "") =>
           validate_ret.ret = "True" /\ validate_ret.invalid = "False"
    /\ validate_ret.ret \in {"", "True", "False"}

C7_Witness ==
    /\ validate_ret.exc = "TypeError"
    /\ validate_ret.ret = "False"
    /\ \E k \in TagIndex : tag_data[k].value = NonString /\ tag_data[k].invalid = "True"

AllRows == {obj_data[k] : k \in ObjIndex} \cup {tag_data[k] : k \in TagIndex}

\* C9: validate_row is idempotent and changes nothing but the invalid flag:
\* a second call on the unchanged row returns what the first returned and
\* leaves the flag the first left, and no call changes the row's id, name,
\* value or datatype.
C9_ValidateIdempotent ==
    \A row \in AllRows :
        /\ validate_row(validate_row(row).row) = validate_row(row)
        /\ [validate_row(row).row EXCEPT !.invalid = row.invalid] = row
        /\ validate_row(row).ret \in {"True", "False"}
        /\ row.invalid # "unset" =>
               row.invalid = (IF validate_row(row).ret = "True" THEN "False" ELSE "True")

\* a row was validated, flagged invalid, and a further call changes nothing
C9_Witness ==
    /\ validate_ret.ret = "False"
    /\ \E k \in TagIndex :
           /\ tag_data[k].invalid = "True"
           /\ validate_row(tag_data[k]).row = tag_data[k]


present_ids(t) == ids_of(data(t))

\* C11: in each row table, after any sequence of add_row and delete_row
\* calls that starts from rows with pairwise distinct ids, the rows have
\* pairwise distinct ids, next_id is greater than the id of every row the
\* table ever held, and no row carries an id that delete_row removed;
\* delete_row with an id that is not in the table changes nothing (rows,
\* next_id, displayed content) and does not call on_change.
C11_IdsNeverReused ==
    /\ \A t \in Tables :
           /\ \A a, b \in 1..Len(data(t)) : a # b => data(t)[a].id # data(t)[b].id
           /\ \A id \in ever_ids[t] : id < next_id(t)
           /\ present_ids(t) \cap removed_ids[t] = {}
           /\ present_ids(t) \cup removed_ids[t] = ever_ids[t]
    /\ last_call.op = "add_row" =>
           /\ last_call.row_id \notin removed_ids[last_call.t]
           /\ last_call.row_id \in present_ids(last_call.t)
    /\ (last_call.op = "delete_row" /\ ~last_call.present) =>
           last_call.unchanged /\ ~last_call.on_change
    /\ (last_call.op = "delete_row" /\ last_call.present) =>
           /\ last_call.row_id \notin present_ids(last_call.t)
           /\ last_call.on_change

\* a table that holds a row add_row gave it and another row, after a row
\* was removed, when delete_row is called with the removed id
C11_Witness ==
    \E t \in Tables :
        /\ last_call = [op |-> "delete_row", t |-> t, row_id |-> last_call.row_id,
                        present |-> FALSE, on_change |-> FALSE, unchanged |-> TRUE]
        /\ last_call.row_id \in removed_ids[t]
        /\ Len(data(t)) >= 2
        /\ added_ids[t] \cap present_ids(t) # {}
        /\ \E id \in added_ids[t] : id > last_call.row_id

====
